---- MODULE Spec2Model ----
(***************************************************************************)
(* Timetabling scripts basic_timetable.py, basic_timetable2.py and         *)
(* basic_timetable3.py: each builds a CP-SAT model over 0/1 variables,     *)
(* calls solver.Solve(model) and prints the assignment.                    *)
(*                                                                         *)
(* An assignment is the set of variable keys whose value is 1.  Script 1   *)
(* and script 2 index x by (c, s, r); they are modelled with the single    *)
(* day 0, so every key is <<c, d, s, r>>.                                  *)
(*                                                                         *)
(* Spec runs the three scripts on a bounded family of problem data.        *)
(* WeeklySpec enumerates the assignments of the model that                 *)
(* basic_timetable3.py builds from its own data, one (day, slot) at a time.*)
(***************************************************************************)
EXTENDS Integers, Sequences, FiniteSets, TLC

\* ---------------------------------------------------------------- bounds
MaxCourses  == 2
MaxDays     == 2
MaxSlots    == 2
MaxRooms    == 2
MaxFreq     == 2
MaxTeachers == 2
\* largest number of x variables of an instance of the bounded family
MaxVars     == 8
\* weekly instance: assignments with a larger objective are not enumerated
MaxObjective == 8

VARIABLES
    inst,      \* the problem data of the script (section "Problem data")
    pc,        \* position in the script
    model,     \* the CpModel: variables, constraints, objective
    status,    \* result of solver.Solve(model)
    xval,      \* keys of x with solver.Value = 1
    yval,      \* keys of y with solver.Value = 1
    searchDone,\* TRUE iff Solve returned before max_time_in_seconds expired
    out,       \* what has been printed
    wd, ws,    \* weekly instance: the (day, slot) whose variables are fixed next
    wcnt,      \* weekly instance: sum of x per course over the slots fixed so far
    wtoday,    \* weekly instance: courses with x = 1 earlier on day wd
    wobj       \* weekly instance: sum of y over the slots fixed so far

scriptVars == <<inst, pc, model, status, xval, yval, searchDone, out>>
weeklyVars == <<wd, ws, wcnt, wtoday, wobj>>
vars == <<scriptVars, weeklyVars>>

\* ------------------------------------------------------------ index sets
Courses(i) == 0 .. (i.num_courses - 1)
Days(i)    == 0 .. (i.num_days - 1)
SlotsOf(i) == 0 .. (i.max_slots_per_day - 1)
Rooms(i)   == 0 .. (i.num_rooms - 1)
Profs(i)   == 0 .. (i.num_profs - 1)

\* x[(c, d, s, r)] = model.NewBoolVar(...)
XVars(i) == Courses(i) \X Days(i) \X SlotsOf(i) \X Rooms(i)

\* y[(d, s)] = model.NewBoolVar(...), weekly script only
YVars(i) == IF i.script = 3 THEN Days(i) \X SlotsOf(i) ELSE {}

\* ----------------------------------------------------------- constraints
\* A linear constraint  sum(lhs) op rhs * (1 or y[ind]):
\*   lhs  the x keys summed, ind  {} or the single y key multiplying rhs.
Con(name, lhs, op, rhs, ind) ==
    [name |-> name, lhs |-> lhs, op |-> op, rhs |-> rhs, ind |-> ind]

Holds(con, xv, yv) ==
    LET l == Cardinality(con.lhs \cap xv)
        r == IF con.ind = {} THEN con.rhs
                             ELSE con.rhs * Cardinality(con.ind \cap yv)
    IN  IF con.op = "eq" THEN l = r ELSE l <= r

\* frequency of course c: 1 in scripts 1 and 2, course_freq[c] in script 3
Freq(i, c) == IF i.script = 3 THEN i.course_freq[c] ELSE 1

FrequencyLe(i) ==
    { Con("freq", {k \in XVars(i) : k[1] = c}, "le", Freq(i, c), {})
        : c \in Courses(i) }

\* 1) Each course must appear exactly course_freq[c] times (exactly once)
FrequencyConstraints(i) ==
    { Con("freq", {k \in XVars(i) : k[1] = c}, "eq", Freq(i, c), {})
        : c \in Courses(i) }

NoOnePerDay(i) == {}

\* 2) A course has at most one session per day (weekly script only)
OnePerDayConstraints(i) ==
    IF i.script = 3
    THEN { Con("day", {k \in XVars(i) : k[1] = cd[1] /\ k[2] = cd[2]}, "le", 1, {})
             : cd \in Courses(i) \X Days(i) }
    ELSE {}

NoRoomConstraints(i) == {}

\* 3) Room clash: at most one course in a room at a day+slot
RoomConstraints(i) ==
    { Con("room", {k \in XVars(i) : k[2] = t[1] /\ k[3] = t[2] /\ k[4] = t[3]},
          "le", 1, {})
        : t \in Days(i) \X SlotsOf(i) \X Rooms(i) }

NoTeacherConstraints(i) == {}

\* 4) Teacher clash: scripts 2 and 3 (script 1 has no such constraint)
TeacherConstraints(i) ==
    IF i.script \in {2, 3}
    THEN { Con("prof",
               {k \in XVars(i) : i.course_prof[k[1]] = t[1]
                                 /\ k[2] = t[2] /\ k[3] = t[3]},
               "le", 1, {})
             : t \in Profs(i) \X Days(i) \X SlotsOf(i) }
    ELSE {}

\* bigM = num_courses * num_rooms
BigM(i) == i.num_courses * i.num_rooms

LinkUnlinked(i) ==
    IF i.script = 3
    THEN { Con("link", {k \in XVars(i) : k[2] = ds[1] /\ k[3] = ds[2]},
               "le", BigM(i), {})
             : ds \in Days(i) \X SlotsOf(i) }
    ELSE {}

\* 5) Link x -> y: sum_c_r x[c,d,s,r] <= bigM * y[d,s]
LinkConstraints(i) ==
    IF i.script = 3
    THEN { Con("link", {k \in XVars(i) : k[2] = ds[1] /\ k[3] = ds[2]},
               "le", BigM(i), {ds})
             : ds \in Days(i) \X SlotsOf(i) }
    ELSE {}

\* model.Minimize(sum(y[(d, s)] ...)), weekly script only
ObjectiveVars(i) == YVars(i)

BuildModel(i) ==
    [xvars |-> XVars(i),
     yvars |-> YVars(i),
     cons  |-> FrequencyConstraints(i) \cup OnePerDayConstraints(i)
               \cup RoomConstraints(i) \cup TeacherConstraints(i)
               \cup LinkConstraints(i),
     objective |-> ObjectiveVars(i)]

EmptyModel == [xvars |-> {}, yvars |-> {}, cons |-> {}, objective |-> {}]

\* ---------------------------------------------------------------- solver
\* What CP-SAT guarantees of solver.Solve(model): a returned assignment
\* satisfies every constraint of the model; OPTIMAL means no assignment has
\* a smaller objective; INFEASIBLE means no assignment satisfies the model.
XSolutions(m) ==
    { xv \in SUBSET m.xvars :
        \A con \in m.cons : con.ind = {} => Holds(con, xv, {}) }

Solutions(m) ==
    UNION { { <<xv, yv>> : yv \in { yy \in SUBSET m.yvars :
                            \A con \in m.cons : con.ind # {} => Holds(con, xv, yy) } }
            : xv \in XSolutions(m) }

ObjectiveValue(m, yv) == Cardinality(m.objective \cap yv)

\* the assignments CP-SAT may return with status OPTIMAL
OptimalSolutions(m) ==
    LET sols == Solutions(m)
        vals == { ObjectiveValue(m, sol[2]) : sol \in sols }
        best == CHOOSE v \in vals : \A w \in vals : v <= w
    IN  { sol \in sols : ObjectiveValue(m, sol[2]) = best }

\* solver.parameters.max_time_in_seconds = 30 (scripts 2 and 3 only)
HasTimeLimit(i) == i.script \in {2, 3}

\* ---------------------------------------------------------------- output
Solved == status \in {"OPTIMAL", "FEASIBLE"}

\* the n-th key visited by the loops  for c / for d / for s / for r
KeyAt(i, n) ==
    LET D == i.num_days
        S == i.max_slots_per_day
        R == i.num_rooms
    IN  << (n - 1) \div (D * S * R), ((n - 1) \div (S * R)) % D,
           ((n - 1) \div R) % S, (n - 1) % R >>

KeysInLoopOrder(i) == [n \in 1 .. Cardinality(XVars(i)) |-> KeyAt(i, n)]

\* the n-th cell visited by the loops  for d / for s / for r  of the grid
CellAt(i, n) ==
    LET S == i.max_slots_per_day
        R == i.num_rooms
    IN  << (n - 1) \div (S * R), ((n - 1) \div R) % S, (n - 1) % R >>

CellsInLoopOrder(i) ==
    [n \in 1 .. (i.num_days * i.max_slots_per_day * i.num_rooms) |-> CellAt(i, n)]

\* inner loop of the grid: the first course c with x[(c, d, s, r)] = 1, or
\* -1 for the "-" entry
FirstCourse(i, xv, cell) ==
    LET here == {c \in Courses(i) : <<c, cell[1], cell[2], cell[3]>> \in xv}
    IN  IF here = {} THEN -1
        ELSE CHOOSE c \in here : \A e \in here : c <= e

GridShowsUnused(cell, yv) == <<cell[1], cell[2]>> \notin yv

\* a slot is printed unless solver.Value(y[(d, s)]) == 0
GridShows(cell, yv) == <<cell[1], cell[2]>> \in yv

\* the weekly grid: one entry <<d, s, r, c>> per room of every printed slot
Grid(i, xv, yv) ==
    LET shown == SelectSeq(CellsInLoopOrder(i), LAMBDA cell : GridShows(cell, yv))
    IN  [n \in 1 .. Len(shown) |->
            <<shown[n][1], shown[n][2], shown[n][3], FirstCourse(i, xv, shown[n])>>]

\* the per-course listing: every key with solver.Value(x[key]) == 1
Listing(i, xv) == SelectSeq(KeysInLoopOrder(i), LAMBDA k : k \in xv)

NoOutput == [grid |-> <<>>, listing |-> <<>>, nosolution |-> FALSE]

\* ------------------------------------------------------------- instances
Shapes ==
    { sh \in (1 .. MaxCourses) \X (1 .. MaxDays) \X (1 .. MaxSlots) \X (1 .. MaxRooms) :
        sh[1] * sh[2] * sh[3] * sh[4] <= MaxVars }

Instance(script, sh, np, freq, prof) ==
    [script |-> script, num_courses |-> sh[1], num_days |-> sh[2],
     max_slots_per_day |-> sh[3], num_rooms |-> sh[4], num_profs |-> np,
     course_freq |-> freq, course_prof |-> prof]

\* basic_timetable.py: one time axis, every course once, teachers unused
Instances1 ==
    { Instance(1, sh, 1, [c \in 0 .. (sh[1] - 1) |-> 1], [c \in 0 .. (sh[1] - 1) |-> 0])
        : sh \in {s \in Shapes : s[2] = 1} }

\* basic_timetable2.py: course_teacher drawn by random.randint
Instances2 ==
    UNION { UNION { { Instance(2, sh, np, [c \in 0 .. (sh[1] - 1) |-> 1], prof)
                        : prof \in [0 .. (sh[1] - 1) -> 0 .. (np - 1)] }
                    : np \in 1 .. MaxTeachers }
            : sh \in {s \in Shapes : s[2] = 1} }

\* basic_timetable3.py: weekly data
Instances3 ==
    UNION { UNION { { Instance(3, sh, np, fp[1], fp[2])
                        : fp \in [0 .. (sh[1] - 1) -> 1 .. MaxFreq]
                                 \X [0 .. (sh[1] - 1) -> 0 .. (np - 1)] }
                    : np \in 1 .. MaxTeachers }
            : sh \in Shapes }

\* a course with frequency 7 on a 5-day week
FreqSevenInstance ==
    Instance(3, <<1, 5, 2, 1>>, 1, [c \in {0} |-> 7], [c \in {0} |-> 0])

Instances == Instances1 \cup Instances2 \cup Instances3 \cup {FreqSevenInstance}

\* ------------------------------------------------------- weekly instance
\* the data of basic_timetable3.py
WeeklyCourses == 6
WeeklyDays    == 5
WeeklySlots   == 6
WeeklyRooms   == 3
WeeklyProfs   == 2

WeeklyInstance ==
    Instance(3, <<WeeklyCourses, WeeklyDays, WeeklySlots, WeeklyRooms>>, WeeklyProfs,
             [c \in 0 .. (WeeklyCourses - 1) |-> <<3, 3, 3, 3, 2, 2>>[c + 1]],
             [c \in 0 .. (WeeklyCourses - 1) |-> <<0, 1, 0, 1, 1, 0>>[c + 1]])

\* constraint 3 at one (day, slot): P is the set of (c, r) with x[c,d,s,r] = 1
WeeklyRoomClashFree(P) ==
    \A r \in Rooms(WeeklyInstance) : Cardinality({k \in P : k[2] = r}) <= 1

WeeklyAnyProfLoad(P) == TRUE

\* constraint 4 at one (day, slot)
WeeklyProfClashFree(P) ==
    \A t \in Profs(WeeklyInstance) :
        Cardinality({k \in P : WeeklyInstance.course_prof[k[1]] = t}) <= 1

\* the values of x[., d, s, .] that constraints 3 and 4 allow at a (day, slot)
WeeklySlotAssignments ==
    { P \in SUBSET (Courses(WeeklyInstance) \X Rooms(WeeklyInstance)) :
        WeeklyRoomClashFree(P) /\ WeeklyProfClashFree(P) }

\* of each such value: its courses and the sum of x over the slot
WeeklySlotLoads ==
    { <<{k[1] : k \in P}, Cardinality(P)>> : P \in WeeklySlotAssignments }

\* Constraints 1 and 2 together, once slot (d, s) is fixed: a course that
\* has n sessions so far still needs course_freq[c] - n of them, at most one
\* on each later day and one later on day d if day d has a later slot and
\* the course has none on day d yet.  No completion of the variables fixed so
\* far satisfies constraints 1 and 2 otherwise.
WeeklyFrequencyReachable(c, n, d, s, onDay) ==
    Freq(WeeklyInstance, c) - n
        <= (WeeklyInstance.num_days - 1 - d)
           + (IF s < WeeklyInstance.max_slots_per_day - 1 /\ ~onDay THEN 1 ELSE 0)

WeeklyInit ==
    /\ wd = 0
    /\ ws = 0
    /\ wcnt = [c \in Courses(WeeklyInstance) |-> 0]
    /\ wtoday = {}
    /\ wobj = 0

\* The assignments of the weekly model, fixed one (day, slot) at a time in
\* loop order: the step fixes x[., wd, ws, .] and y[wd, ws] to values that
\* constraints 2 to 5 allow and that leave constraint 1 satisfiable by the
\* variables not yet fixed.
WeeklyAssignSlot ==
    /\ wd < WeeklyInstance.num_days
    /\ \E load \in WeeklySlotLoads, yds \in {0, 1} :
          LET cs == load[1] IN
          \* 5) sum_c_r x[c,d,s,r] <= bigM * y[d,s]
          /\ load[2] <= BigM(WeeklyInstance) * yds
          \* 2) at most one session of a course per day
          /\ cs \cap wtoday = {}
          \* 1) the sum of a course never exceeds course_freq[c]
          /\ \A c \in cs : wcnt[c] < Freq(WeeklyInstance, c)
          /\ \A c \in Courses(WeeklyInstance) :
                WeeklyFrequencyReachable(c, wcnt[c] + (IF c \in cs THEN 1 ELSE 0),
                                         wd, ws, c \in (wtoday \cup cs))
          /\ wobj + yds <= MaxObjective
          /\ wcnt' = [c \in Courses(WeeklyInstance) |->
                        IF c \in cs THEN wcnt[c] + 1 ELSE wcnt[c]]
          /\ wobj' = wobj + yds
          /\ IF ws = WeeklyInstance.max_slots_per_day - 1
             THEN wd' = wd + 1 /\ ws' = 0 /\ wtoday' = {}
             ELSE wd' = wd /\ ws' = ws + 1 /\ wtoday' = wtoday \cup cs
    /\ UNCHANGED scriptVars

\* every variable is fixed and constraint 1 holds: the assignment satisfies
\* the weekly model
WeeklySatisfied ==
    /\ wd = WeeklyInstance.num_days
    /\ \A c \in Courses(WeeklyInstance) : wcnt[c] = Freq(WeeklyInstance, c)

\* --------------------------------------------------------------- actions
Init ==
    /\ inst \in Instances
    /\ pc = "build"
    /\ model = EmptyModel
    /\ status = "NOT_SOLVED"
    /\ xval = {}
    /\ yval = {}
    /\ searchDone = FALSE
    /\ out = NoOutput
    /\ WeeklyInit

\* variables, constraints and objective are added to the CpModel
Build ==
    /\ pc = "build"
    /\ model' = BuildModel(inst)
    /\ pc' = "solve"
    /\ UNCHANGED <<inst, status, xval, yval, searchDone, out>>
    /\ UNCHANGED weeklyVars

\* status = solver.Solve(model): search completed, solution proved optimal
SolveOptimal ==
    /\ pc = "solve"
    /\ \E sol \in OptimalSolutions(model) :
          /\ xval' = sol[1]
          /\ yval' = sol[2]
    /\ status' = "OPTIMAL"
    /\ searchDone' = TRUE
    /\ pc' = "output"
    /\ UNCHANGED <<inst, model, out>>
    /\ UNCHANGED weeklyVars

\* search completed, no assignment satisfies the model
SolveInfeasible ==
    /\ pc = "solve"
    /\ Solutions(model) = {}
    /\ status' = "INFEASIBLE"
    /\ searchDone' = TRUE
    /\ pc' = "output"
    /\ UNCHANGED <<inst, model, xval, yval, out>>
    /\ UNCHANGED weeklyVars

\* the time limit expired after a solution was found
SolveFeasible ==
    /\ pc = "solve"
    /\ HasTimeLimit(inst)
    /\ \E sol \in Solutions(model) :
          /\ xval' = sol[1]
          /\ yval' = sol[2]
    /\ status' = "FEASIBLE"
    /\ searchDone' = FALSE
    /\ pc' = "output"
    /\ UNCHANGED <<inst, model, out>>
    /\ UNCHANGED weeklyVars

\* the time limit expired before any solution was found
SolveUnknown ==
    /\ pc = "solve"
    /\ HasTimeLimit(inst)
    /\ status' = "UNKNOWN"
    /\ searchDone' = FALSE
    /\ pc' = "output"
    /\ UNCHANGED <<inst, model, xval, yval, out>>
    /\ UNCHANGED weeklyVars

\* weekly script: the day/slot/room grid
PrintGrid ==
    /\ pc = "output"
    /\ inst.script = 3
    /\ Solved
    /\ out' = [out EXCEPT !.grid = Grid(inst, xval, yval)]
    /\ pc' = "summary"
    /\ UNCHANGED <<inst, model, status, xval, yval, searchDone>>
    /\ UNCHANGED weeklyVars

\* weekly script: the per-course summary
PrintSummary ==
    /\ pc = "summary"
    /\ out' = [out EXCEPT !.listing = Listing(inst, xval)]
    /\ pc' = "done"
    /\ UNCHANGED <<inst, model, status, xval, yval, searchDone>>
    /\ UNCHANGED weeklyVars

\* scripts 1 and 2: the timetable listing
PrintTimetable ==
    /\ pc = "output"
    /\ inst.script \in {1, 2}
    /\ Solved
    /\ out' = [out EXCEPT !.listing = Listing(inst, xval)]
    /\ pc' = "done"
    /\ UNCHANGED <<inst, model, status, xval, yval, searchDone>>
    /\ UNCHANGED weeklyVars

\* else branch: "No feasible solution found."
PrintNoSolution ==
    /\ pc = "output"
    /\ ~Solved
    /\ out' = [out EXCEPT !.nosolution = TRUE]
    /\ pc' = "done"
    /\ UNCHANGED <<inst, model, status, xval, yval, searchDone>>
    /\ UNCHANGED weeklyVars

Next ==
    \/ Build
    \/ SolveOptimal
    \/ SolveInfeasible
    \/ SolveFeasible
    \/ SolveUnknown
    \/ PrintGrid
    \/ PrintSummary
    \/ PrintTimetable
    \/ PrintNoSolution

Spec == Init /\ [][Next]_vars

\* the weekly instance alone, before Solve returns
WeeklySpecInit ==
    /\ inst = WeeklyInstance
    /\ pc = "solve"
    /\ model = EmptyModel
    /\ status = "NOT_SOLVED"
    /\ xval = {}
    /\ yval = {}
    /\ searchDone = FALSE
    /\ out = NoOutput
    /\ WeeklyInit

WeeklySpec == WeeklySpecInit /\ [][WeeklyAssignSlot]_vars

\* ---------------------------------------------------------------- claims
Returned == pc \in {"output", "summary", "done"}

PlacementsOf(c) == {k \in xval : k[1] = c}

\* C1: in every OPTIMAL or FEASIBLE solution each course has exactly as
\* many placements as its declared frequency (1 in scripts 1 and 2,
\* course_freq[c] in the weekly script).
FrequencyLaw ==
    Solved =>
        \A c \in Courses(inst) :
            Cardinality(PlacementsOf(c))
                = (IF inst.script = 3 THEN inst.course_freq[c] ELSE 1)

FrequencyLawWitness ==
    /\ Solved
    /\ inst.script = 3
    /\ \E c, e \in Courses(inst) :
          /\ inst.course_freq[c] = 2
          /\ inst.course_freq[e] = 1
          /\ Cardinality(PlacementsOf(c)) = 2
          /\ Cardinality(PlacementsOf(e)) = 1

\* C2: in every OPTIMAL or FEASIBLE solution every (day, period, room)
\* holds at most one course.
RoomExclusivity ==
    Solved =>
        \A t \in Days(inst) \X SlotsOf(inst) \X Rooms(inst) :
            Cardinality({k \in xval : k[2] = t[1] /\ k[3] = t[2] /\ k[4] = t[3]}) <= 1

RoomExclusivityWitness ==
    /\ Solved
    /\ \E k, l \in xval :
          k[1] # l[1] /\ k[2] = l[2] /\ k[3] = l[3] /\ k[4] # l[4]

\* C3: in every OPTIMAL or FEASIBLE solution of scripts 2 and 3, every
\* teacher has at most one placement, over all rooms and all of the teacher's
\* courses, at every (day, period).
TeacherExclusivity ==
    (Solved /\ inst.script \in {2, 3}) =>
        \A t \in Profs(inst) \X Days(inst) \X SlotsOf(inst) :
            Cardinality({k \in xval : inst.course_prof[k[1]] = t[1]
                                      /\ k[2] = t[2] /\ k[3] = t[3]}) <= 1

TeacherExclusivityWitness ==
    /\ Solved
    /\ inst.script \in {2, 3}
    /\ inst.num_rooms >= 2
    /\ \E k, l \in xval :
          /\ k[1] # l[1]
          /\ inst.course_prof[k[1]] = inst.course_prof[l[1]]
          /\ <<k[2], k[3]>> # <<l[2], l[3]>>

\* C4: in every OPTIMAL or FEASIBLE solution of the weekly script, every
\* course has at most one placement on every day.
OneSessionPerDay ==
    (Solved /\ inst.script = 3) =>
        \A cd \in Courses(inst) \X Days(inst) :
            Cardinality({k \in xval : k[1] = cd[1] /\ k[2] = cd[2]}) <= 1

OneSessionPerDayWitness ==
    /\ Solved
    /\ inst.script = 3
    /\ inst.max_slots_per_day >= 2
    /\ \E k, l \in xval : k[1] = l[1] /\ k[2] # l[2]

RECURSIVE SumFreq(_, _)
SumFreq(i, cs) ==
    IF cs = {} THEN 0
    ELSE LET c == CHOOSE e \in cs : TRUE
         IN  Freq(i, c) + SumFreq(i, cs \ {c})

\* some teacher owns courses whose frequencies sum to more than the number
\* of (day, period) slots
TeacherOverloaded(i) ==
    /\ i.script \in {2, 3}
    /\ \E t \in Profs(i) :
          SumFreq(i, {c \in Courses(i) : i.course_prof[c] = t})
              > i.num_days * i.max_slots_per_day

FreqExceedsDays(i) ==
    /\ i.script = 3
    /\ \E c \in Courses(i) : i.course_freq[c] > i.num_days

TwoRoomScenario(i) ==
    /\ i.script = 1
    /\ i.num_courses = 2 /\ i.num_rooms = 2
    /\ i.num_days = 1 /\ i.max_slots_per_day = 1
    /\ i.num_profs = 1

UsageLink ==
    /\ (Solved /\ inst.script = 3) =>
          \A k \in xval : <<k[2], k[3]>> \in yval
    /\ (inst.script = 3 /\ pc = "solve") =>
          \A xv \in SUBSET model.xvars :
              \A con \in model.cons :
                  con.ind # {} => Holds(con, xv, model.yvars)

UsageLinkWitness ==
    /\ status = "FEASIBLE"
    /\ inst.script = 3
    /\ inst.num_courses * inst.num_rooms >= 4
    /\ \E k, l \in xval : k # l /\ k[2] = l[2] /\ k[3] = l[3]
    /\ \E ds \in yval : \A k \in xval : <<k[2], k[3]>> # ds

RECURSIVE SumOver(_, _)
SumOver(f, cs) ==
    IF cs = {} THEN 0
    ELSE LET c == CHOOSE e \in cs : TRUE
         IN  f[c] + SumOver(f, cs \ {c})

GridPlacements ==
    { <<out.grid[n][4], out.grid[n][1], out.grid[n][2], out.grid[n][3]>>
        : n \in {m \in 1 .. Len(out.grid) : out.grid[m][4] # -1} }

ListingPlacements == { out.listing[n] : n \in 1 .. Len(out.listing) }

\* C10: once the weekly script has printed a solution, the grid shows every
\* placement with x = 1 exactly once: its entries are the placements of the
\* per-course summary, with no entry repeated.
GridComplete ==
    (inst.script = 3 /\ Solved /\ pc = "done") =>
        /\ GridPlacements = xval
        /\ GridPlacements = ListingPlacements
        /\ Cardinality({m \in 1 .. Len(out.grid) : out.grid[m][4] # -1})
              = Cardinality(xval)
        /\ Len(out.listing) = Cardinality(xval)

GridCompleteWitness ==
    /\ inst.script = 3
    /\ status = "FEASIBLE"
    /\ pc = "done"
    /\ \E k, l \in xval : k # l /\ k[2] = l[2] /\ k[3] = l[3]
    /\ \E ds \in yval : \A k \in xval : <<k[2], k[3]>> # ds
    /\ \E n \in 1 .. Len(out.grid) : out.grid[n][4] = -1

====
